---- MODULE Spec2Model ----
(***************************************************************************)
(* The HEMCO configuration parsers of src/utils/python/HemcoConfigParsers. *)
(*                                                                         *)
(* A Python string is a sequence of atoms.  An atom is either one          *)
(* character (" ", "\n", ":", "#", "%", a letter, a digit) or one of the    *)
(* words BEGIN, SECTION, END, which the parsers look for and which no      *)
(* other atoms spell.  The string operators below are the Python string    *)
(* methods the parsers call, computed on such sequences.                   *)
(*                                                                         *)
(* Each parser is a loop over the lines of a file.  One action processes   *)
(* one line (the whole loop body); Return ends the loop at end of input.   *)
(* An uncaught Python exception ends the parse with status "raised".       *)
(***************************************************************************)
EXTENDS Naturals, Sequences, FiniteSets

VARIABLES
    dialect,              \* which parser runs: "config", "diagn", "species", "grid"
    lines,                \* the lines of the file read so far; the last one is `line`
    config_dict,          \* config2yaml.py: section |-> (key |-> value)
    diagn_dict,           \* convert_diag2yaml.py: section |-> list of records
    species_dict,         \* spec2yaml.py: section |-> (symbol |-> record)
    grid_dict,            \* grid2yaml.py: key |-> value
    current_section,      \* None or a section name
    current_sub_section,  \* None or a sub-section name (config2yaml.py only)
    status,               \* "running", "returned" or "raised"
    error                 \* the exception raised, "" when none

vars == <<dialect, lines, config_dict, diagn_dict, species_dict, grid_dict,
          current_section, current_sub_section, status, error>>

\* The longest input file explored, in lines.
MaxLines == 4

----------------------------------------------------------------------------
(* Python values *)

\* Optional[str]: None is the empty sequence, a string s is <<s>>.
None == <<>>

Some(s) == <<s>>

\* Python truthiness of an Optional[str]: None and "" are false.
Truthy(o) == o # None /\ o[1] # <<>>

\* The empty dict.
EmptyDict == [k \in {} |-> <<>>]

\* d[k] = v
Put(d, k, v) == [x \in (DOMAIN d) \cup {k} |-> IF x = k THEN v ELSE d[x]]

\* A value of a section body in config_dict: a str, or a list of token lists.
StrValue(s) == [kind |-> "str", str |-> s, rows |-> <<>>]

ListValue(rs) == [kind |-> "list", str |-> <<>>, rows |-> rs]

----------------------------------------------------------------------------
(* Python string methods *)

\* The characters str.split(), str.strip() and the regex class \s take as space.
Whitespace == {" ", "\n"}

\* s.startswith(p)
startswith(s, p) == Len(s) >= Len(p) /\ SubSeq(s, 1, Len(p)) = p

\* re.match(r'^\s*$', s)
IsBlank(s) == \A i \in 1..Len(s) : s[i] \in Whitespace

\* c in s, for a one-atom c
contains(s, c) == \E i \in 1..Len(s) : s[i] = c

\* The index of the first c in s, Len(s) + 1 when there is none.
RECURSIVE find(_, _, _)
find(s, c, i) ==
    IF i > Len(s) THEN i
    ELSE IF s[i] = c THEN i
    ELSE find(s, c, i + 1)

\* s.lstrip()
RECURSIVE lstrip(_)
lstrip(s) ==
    IF s # <<>> /\ Head(s) \in Whitespace THEN lstrip(Tail(s)) ELSE s

\* s.rstrip()
RECURSIVE rstrip(_)
rstrip(s) ==
    IF s # <<>> /\ s[Len(s)] \in Whitespace
    THEN rstrip(SubSeq(s, 1, Len(s) - 1))
    ELSE s

\* s.strip()
strip(s) == rstrip(lstrip(s))

\* s.split(c): cut at every c, empty pieces kept.
RECURSIVE split_sep(_, _)
split_sep(s, c) ==
    LET i == find(s, c, 1) IN
    IF i > Len(s) THEN <<s>>
    ELSE <<SubSeq(s, 1, i - 1)>> \o split_sep(SubSeq(s, i + 1, Len(s)), c)

\* s.split(c, 1): cut at the first c only.
split_once(s, c) ==
    LET i == find(s, c, 1) IN
    IF i > Len(s) THEN <<s>>
    ELSE <<SubSeq(s, 1, i - 1), SubSeq(s, i + 1, Len(s))>>

\* The index of the first whitespace atom of s, Len(s) + 1 when there is none.
RECURSIVE find_space(_, _)
find_space(s, i) ==
    IF i > Len(s) THEN i
    ELSE IF s[i] \in Whitespace THEN i
    ELSE find_space(s, i + 1)

\* s.split(): cut at runs of whitespace, no empty pieces.
RECURSIVE split(_)
split(s) ==
    LET t == lstrip(s)
        i == find_space(t, 1)
    IN  IF t = <<>> THEN <<>>
        ELSE <<SubSeq(t, 1, i - 1)>> \o split(SubSeq(t, i, Len(t)))

\* " ".join(parts)
RECURSIVE join(_)
join(parts) ==
    IF parts = <<>> THEN <<>>
    ELSE IF Len(parts) = 1 THEN parts[1]
    ELSE parts[1] \o <<" ">> \o join(Tail(parts))

\* parts[k:], k counted from 0 as in Python
slice_from(parts, k) == SubSeq(parts, k + 1, Len(parts))

----------------------------------------------------------------------------
(* The input files explored: every sequence of at most MaxLines of these lines *)

\* Lines of a main configuration file (HEMCO_Config.rc).
ConfigLines ==
    { <<"BEGIN", " ", "SECTION", " ", "S", "\n">>,
      <<"BEGIN", " ", "SECTION", " ", "T", "\n">>,
      <<"BEGIN", " ", "SECTION", " ", " ", "S", " ", "SECTION", " ", "T", "\n">>,
      <<"BEGIN", " ", "SECTION", "\n">>,
      <<"END", " ", "SECTION", "\n">>,
      <<"END", "\n">>,
      <<"A", " ", "1", "\n">>,
      <<"B", " ", " ", "2", " ", "3", "\n">>,
      <<"A", ":", " ", "x", "\n">>,
      <<"K", " ", ":", " ", "v", ":", "w", "\n">>,
      <<"#", " ", "c", "\n">>,
      <<" ", "\n">>,
      <<"%", "\n">>,
      <<"%", "A", " ", "1", "\n">> }

\* Lines of a diagnostics file (HEMCO_Diagn.rc).
DiagnLines ==
    { <<"BEGIN", " ", "D", "\n">>,
      <<"BEGIN", " ", "E", " ", "X", "\n">>,
      <<"BEGIN", " ", " ", "D", "\n">>,
      <<"BEGIN", "\n">>,
      <<"END", "\n">>,
      <<"END", " ", "SECTION", "\n">>,
      <<"n", " ", "s", " ", "e", " ", "c", " ", "h", " ", "d", " ", "u", "\n">>,
      <<"n", " ", "s", "2", " ", "e", " ", "c", " ", "h", " ", "d", " ", "u",
        " ", " ", "L", "1", " ", " ", " ", "L", "2", "\n">>,
      <<"n", " ", "s", " ", "e", "\n">>,
      <<"!", " ", "c", "\n">>,
      <<"\n">> }

\* Lines of a species file (HEMCO_Species.rc).
SpeciesLines ==
    { <<"BEGIN", " ", "P", "\n">>,
      <<"BEGIN", " ", "Q", " ", "X", "\n">>,
      <<"BEGIN", " ", " ", "P", "\n">>,
      <<"BEGIN", "\n">>,
      <<"END", "\n">>,
      <<"END", " ", "SECTION", "\n">>,
      <<"1", " ", "N", "O", " ", "m", " ", "k", " ", "c", " ", "p", "\n">>,
      <<"2", " ", " ", "N", "O", " ", "m", "2", " ", "k", "2", " ", "c", "2",
        " ", "p", "2", " ", "x", "\n">>,
      <<"1", " ", "N", "O", " ", "m", "\n">>,
      <<"1", "\n">>,
      <<"#", " ", "c", "\n">>,
      <<"\n">> }

----------------------------------------------------------------------------
(* What every loop body starts with *)

\* line.startswith('!') or line.startswith('#')
IsComment(l) == startswith(l, <<"!">>) \/ startswith(l, <<"#">>)

\* The lines `continue` skips before any parser looks at them.
IsSkipped(l) == IsComment(l) \/ IsBlank(l)

\* An uncaught exception: the parse ends, nothing is returned.
Raise(e) ==
    /\ status' = "raised"
    /\ error' = e
    /\ UNCHANGED <<config_dict, diagn_dict, species_dict, grid_dict,
                   current_section, current_sub_section>>

\* The loop body did nothing.
Skip ==
    UNCHANGED <<config_dict, diagn_dict, species_dict, grid_dict,
                current_section, current_sub_section, status, error>>

----------------------------------------------------------------------------
(* config2yaml.py and Convert_HemcoConfig2yaml.py: parse_hemco_config *)

\* line.split('SECTION')[1].strip()
ConfigSectionName(l) == strip(split_sep(l, "SECTION")[2])

\* ConfigBegin keeping the body of a section that is already in the tree.
ConfigBegin_KeepsBody(l) ==
    LET section_name == ConfigSectionName(l) IN
    /\ current_section' = Some(section_name)
    /\ config_dict' = IF section_name \in DOMAIN config_dict
                      THEN config_dict
                      ELSE Put(config_dict, section_name, EmptyDict)
    /\ UNCHANGED <<diagn_dict, species_dict, grid_dict, current_sub_section, status, error>>

\* if line.startswith('BEGIN SECTION'):
ConfigBegin(l) ==
    LET section_name == ConfigSectionName(l) IN
    /\ current_section' = Some(section_name)
    /\ config_dict' = Put(config_dict, section_name, EmptyDict)
    /\ UNCHANGED <<diagn_dict, species_dict, grid_dict, current_sub_section, status, error>>

\* ConfigEnd dropping the section it closes when that section is empty.
ConfigEnd_DropsEmpty ==
    /\ current_section' = None
    /\ current_sub_section' = None
    /\ config_dict' =
           [n \in {m \in DOMAIN config_dict :
                       ~(current_section = Some(m) /\ config_dict[m] = EmptyDict)}
               |-> config_dict[n]]
    /\ UNCHANGED <<diagn_dict, species_dict, grid_dict, status, error>>

\* elif line.startswith('END SECTION'):
ConfigEnd ==
    /\ current_section' = None
    /\ current_sub_section' = None
    /\ UNCHANGED <<config_dict, diagn_dict, species_dict, grid_dict, status, error>>

\* if ':' in line:
ConfigKeyValue(l) ==
    LET kv == split_once(l, ":")
        key == strip(kv[1])
        value == strip(kv[2])
        sec == current_section[1]
    IN  /\ config_dict' =
               Put(config_dict, sec, Put(config_dict[sec], key, StrValue(value)))
        /\ UNCHANGED <<diagn_dict, species_dict, grid_dict,
                       current_section, current_sub_section, status, error>>

\* ConfigDataRow opening a sub-section for every new first token: the row
\* goes to the list named by its own first token, and the cursor follows it.
ConfigDataRow_OpensPerToken(l) ==
    LET parts == split(l)
        sec == current_section[1]
        body == config_dict[sec]
    IN  IF parts[1] \in DOMAIN body /\ body[parts[1]].kind # "list"
        THEN Raise("AttributeError")
        ELSE /\ current_sub_section' = Some(parts[1])
             /\ config_dict' =
                    Put(config_dict, sec,
                        Put(body, parts[1],
                            ListValue(IF parts[1] \in DOMAIN body
                                      THEN Append(body[parts[1]].rows, parts)
                                      ELSE <<parts>>)))
             /\ UNCHANGED <<diagn_dict, species_dict, grid_dict, current_section, status, error>>

\* else: parts = line.split() ...
ConfigDataRow(l) ==
    LET parts == split(l)
        sec == current_section[1]
        body == config_dict[sec]
    IN  IF Truthy(current_sub_section)
        THEN LET sub == current_sub_section[1] IN
             IF sub \notin DOMAIN body
             THEN Raise("KeyError")
             ELSE IF body[sub].kind # "list"
             THEN Raise("AttributeError")
             ELSE /\ config_dict' =
                        Put(config_dict, sec,
                            Put(body, sub, ListValue(Append(body[sub].rows, parts))))
                  /\ UNCHANGED <<diagn_dict, species_dict, grid_dict, current_section,
                                 current_sub_section, status, error>>
        ELSE /\ current_sub_section' = Some(parts[1])
             /\ config_dict' =
                    Put(config_dict, sec, Put(body, parts[1], ListValue(<<parts>>)))
             /\ UNCHANGED <<diagn_dict, species_dict, grid_dict, current_section, status, error>>

\* One pass of the loop `for line in lines:`.
ConfigLine(l) ==
    /\ dialect = "config"
    /\ status = "running"
    /\ Len(lines) < MaxLines
    /\ lines' = Append(lines, l)
    /\ UNCHANGED dialect
    /\ IF IsSkipped(l) THEN Skip
       ELSE IF startswith(l, <<"BEGIN", " ", "SECTION">>) THEN ConfigBegin(l)
       ELSE IF startswith(l, <<"END", " ", "SECTION">>) THEN ConfigEnd
       ELSE IF startswith(l, <<"%">>) THEN Skip
       ELSE IF ~Truthy(current_section) THEN Skip
       ELSE IF contains(l, ":") THEN ConfigKeyValue(l)
       ELSE ConfigDataRow(l)

----------------------------------------------------------------------------
(* convert_diag2yaml.py: parse_hemco_diagn *)

\* The indices parts[k] the record is built from (Python counts from 0).
DiagnIndices == {0, 1, 2, 3, 4, 5, 6}

\* DiagnRecord with the long name taken one token too early: parts[6:].
DiagnRecord_LongNameFromUnit(parts) ==
    [ Name     |-> parts[1],
      Spec     |-> parts[2],
      ExtNr    |-> parts[3],
      Cat      |-> parts[4],
      Hier     |-> parts[5],
      Dim      |-> parts[6],
      OutUnit  |-> parts[7],
      LongName |-> join(slice_from(parts, 6)) ]

\* The dict appended for one row.
DiagnRecord(parts) ==
    [ Name     |-> parts[1],
      Spec     |-> parts[2],
      ExtNr    |-> parts[3],
      Cat      |-> parts[4],
      Hier     |-> parts[5],
      Dim      |-> parts[6],
      OutUnit  |-> parts[7],
      LongName |-> join(slice_from(parts, 7)) ]

\* if line.startswith('BEGIN'):
DiagnBegin(l) ==
    LET pieces == split_sep(l, " ") IN
    IF Len(pieces) < 2
    THEN Raise("IndexError")
    ELSE LET section_name == strip(pieces[2]) IN
         /\ current_section' = Some(section_name)
         /\ diagn_dict' = Put(diagn_dict, section_name, <<>>)
         /\ UNCHANGED <<config_dict, species_dict, grid_dict, current_sub_section, status, error>>

\* DiagnEnd leaving the section open.
DiagnEnd_KeepsSection ==
    UNCHANGED <<config_dict, diagn_dict, species_dict, grid_dict,
                current_section, current_sub_section, status, error>>

\* elif line.startswith('END'):
DiagnEnd ==
    /\ current_section' = None
    /\ UNCHANGED <<config_dict, diagn_dict, species_dict, grid_dict,
                   current_sub_section, status, error>>

\* DiagnDataRow keeping one record per Name: a row whose Name the section
\* already holds takes the place of that record.
DiagnDataRow_KeyedByName(l) ==
    LET parts == split(l)
        sec == current_section[1]
        old == diagn_dict[sec]
        same == {i \in 1..Len(old) : old[i].Name = parts[1]}
    IN  IF \E k \in DiagnIndices : k + 1 > Len(parts)
        THEN Raise("IndexError")
        ELSE /\ diagn_dict' =
                    Put(diagn_dict, sec,
                        IF same = {}
                        THEN Append(old, DiagnRecord(parts))
                        ELSE [old EXCEPT ![CHOOSE i \in same : TRUE] = DiagnRecord(parts)])
             /\ UNCHANGED <<config_dict, species_dict, grid_dict, current_section,
                            current_sub_section, status, error>>

\* else: if current_section: parts = line.split() ...
DiagnDataRow(l) ==
    LET parts == split(l)
        sec == current_section[1]
    IN  IF \E k \in DiagnIndices : k + 1 > Len(parts)
        THEN Raise("IndexError")
        ELSE /\ diagn_dict' =
                    Put(diagn_dict, sec, Append(diagn_dict[sec], DiagnRecord(parts)))
             /\ UNCHANGED <<config_dict, species_dict, grid_dict, current_section,
                            current_sub_section, status, error>>

\* One pass of the loop `for line in lines:`.
DiagnLine(l) ==
    /\ dialect = "diagn"
    /\ status = "running"
    /\ Len(lines) < MaxLines
    /\ lines' = Append(lines, l)
    /\ UNCHANGED dialect
    /\ IF IsSkipped(l) THEN Skip
       ELSE IF startswith(l, <<"BEGIN">>) THEN DiagnBegin(l)
       ELSE IF startswith(l, <<"END">>) THEN DiagnEnd
       ELSE IF ~Truthy(current_section) THEN Skip
       ELSE DiagnDataRow(l)

----------------------------------------------------------------------------
(* spec2yaml.py: parse_hemco_species *)

\* The indices parts[k] the entry is built from (Python counts from 0).
SpeciesIndices == {1, 2, 3, 4, 5}

\* SpeciesKey taking the first token: parts[0].
SpeciesKey_FirstToken(parts) == parts[1]

\* The key of the entry of one row: parts[1].
SpeciesKey(parts) == parts[2]

\* The dict stored for one row.
SpeciesRecord(parts) ==
    [ MW  |-> parts[3],
      K0  |-> parts[4],
      CR  |-> parts[5],
      pKA |-> parts[6] ]

\* if line.startswith('BEGIN'):
SpeciesBegin(l) ==
    LET pieces == split_sep(l, " ") IN
    IF Len(pieces) < 2
    THEN Raise("IndexError")
    ELSE LET section_name == strip(pieces[2]) IN
         /\ current_section' = Some(section_name)
         /\ species_dict' = Put(species_dict, section_name, EmptyDict)
         /\ UNCHANGED <<config_dict, diagn_dict, grid_dict, current_sub_section, status, error>>

\* elif line.startswith('END'):
SpeciesEnd ==
    /\ current_section' = None
    /\ UNCHANGED <<config_dict, diagn_dict, species_dict, grid_dict,
                   current_sub_section, status, error>>

\* SpeciesDataRow writing the entry into every section of the tree.
SpeciesDataRow_WritesEverySection(l) ==
    LET parts == split(l)
    IN  IF \E k \in SpeciesIndices : k + 1 > Len(parts)
        THEN Raise("IndexError")
        ELSE /\ species_dict' =
                    [n \in DOMAIN species_dict |->
                        Put(species_dict[n], SpeciesKey(parts), SpeciesRecord(parts))]
             /\ UNCHANGED <<config_dict, diagn_dict, grid_dict, current_section,
                            current_sub_section, status, error>>

\* else: if current_section: parts = line.split() ...
SpeciesDataRow(l) ==
    LET parts == split(l)
        sec == current_section[1]
    IN  IF \E k \in SpeciesIndices : k + 1 > Len(parts)
        THEN Raise("IndexError")
        ELSE /\ species_dict' =
                    Put(species_dict, sec,
                        Put(species_dict[sec], SpeciesKey(parts), SpeciesRecord(parts)))
             /\ UNCHANGED <<config_dict, diagn_dict, grid_dict, current_section,
                            current_sub_section, status, error>>

\* One pass of the loop `for line in lines:`.
SpeciesLine(l) ==
    /\ dialect = "species"
    /\ status = "running"
    /\ Len(lines) < MaxLines
    /\ lines' = Append(lines, l)
    /\ UNCHANGED dialect
    /\ IF IsSkipped(l) THEN Skip
       ELSE IF startswith(l, <<"BEGIN">>) THEN SpeciesBegin(l)
       ELSE IF startswith(l, <<"END">>) THEN SpeciesEnd
       ELSE IF ~Truthy(current_section) THEN Skip
       ELSE SpeciesDataRow(l)

----------------------------------------------------------------------------
(* grid2yaml.py: parse_hemco_grid *)

\* Lines of a grid file.
GridLines ==
    { <<"K", ":", " ", "v", "\n">>,
      <<" ", "K", " ", ":", " ", "w", " ", "#", " ", "c", "\n">>,
      <<"G", ":", "a", ":", "b", "\n">>,
      <<"J", ":", " ", "#", "x", "\n">>,
      <<"A", " ", "1", "\n">>,
      <<"BEGIN", " ", "SECTION", " ", "S", "\n">>,
      <<"#", " ", "c", ":", "d", "\n">>,
      <<"\n">> }

\* GridValue keeping the inline comment: value.strip()
GridValue_KeepsComment(v) == strip(v)

\* value.split('#')[0].strip()
GridValue(v) == strip(split_sep(v, "#")[1])

\* if ':' in line:
GridKeyValue(l) ==
    LET kv == split_once(l, ":")
        key == strip(kv[1])
        value == GridValue(kv[2])
    IN  /\ grid_dict' = Put(grid_dict, key, value)
        /\ UNCHANGED <<config_dict, diagn_dict, species_dict,
                       current_section, current_sub_section, status, error>>

\* One pass of the loop `for line in lines:`.
GridLine(l) ==
    /\ dialect = "grid"
    /\ status = "running"
    /\ Len(lines) < MaxLines
    /\ lines' = Append(lines, l)
    /\ UNCHANGED dialect
    /\ IF IsSkipped(l) THEN Skip
       ELSE IF contains(l, ":") THEN GridKeyValue(l)
       ELSE Skip

----------------------------------------------------------------------------
(* The parse as a whole *)

\* The loop is over: `return config_dict` (diagn_dict, species_dict, grid_dict).
Return ==
    /\ status = "running"
    /\ status' = "returned"
    /\ UNCHANGED <<dialect, lines, config_dict, diagn_dict, species_dict, grid_dict,
                   current_section, current_sub_section, error>>

\* The state before the loop, in each of the three parsers of sectioned files.
Init ==
    /\ dialect \in {"config", "diagn", "species"}
    /\ lines = <<>>
    /\ config_dict = EmptyDict
    /\ diagn_dict = EmptyDict
    /\ species_dict = EmptyDict
    /\ grid_dict = EmptyDict
    /\ current_section = None
    /\ current_sub_section = None
    /\ status = "running"
    /\ error = ""

Next ==
    \/ \E l \in ConfigLines : ConfigLine(l)
    \/ \E l \in DiagnLines : DiagnLine(l)
    \/ \E l \in SpeciesLines : SpeciesLine(l)
    \/ Return

Spec == Init /\ [][Next]_vars

\* One parser at a time.
NextConfig == (\E l \in ConfigLines : ConfigLine(l)) \/ Return

InitConfig == Init /\ dialect = "config"

SpecConfig == InitConfig /\ [][NextConfig]_vars

NextDiagn == (\E l \in DiagnLines : DiagnLine(l)) \/ Return

InitDiagn == Init /\ dialect = "diagn"

SpecDiagn == InitDiagn /\ [][NextDiagn]_vars

NextSpecies == (\E l \in SpeciesLines : SpeciesLine(l)) \/ Return

InitSpecies == Init /\ dialect = "species"

SpecSpecies == InitSpecies /\ [][NextSpecies]_vars

\* The grid parser: a flat file, no sections.
NextGrid == (\E l \in GridLines : GridLine(l)) \/ Return

InitGrid ==
    /\ dialect = "grid"
    /\ lines = <<>>
    /\ config_dict = EmptyDict
    /\ diagn_dict = EmptyDict
    /\ species_dict = EmptyDict
    /\ grid_dict = EmptyDict
    /\ current_section = None
    /\ current_sub_section = None
    /\ status = "running"
    /\ error = ""

SpecGrid == InitGrid /\ [][NextGrid]_vars

----------------------------------------------------------------------------
(* Vocabulary of the properties *)

\* The line the step being taken processes.
line_read == lines'[Len(lines')]

\* The step being taken processes one line of a running parse.
ReadsLine == status = "running" /\ Len(lines') = Len(lines) + 1

\* The line the parse processed last.
last_line == lines[Len(lines)]

\* A section-begin line of the main configuration file.
IsConfigBeginLine(l) ==
    ~IsSkipped(l) /\ startswith(l, <<"BEGIN", " ", "SECTION">>)

\* A section-end line of the main configuration file, as written in full.
IsConfigEndLine(l) ==
    ~IsSkipped(l) /\ startswith(l, <<"END", " ", "SECTION">>)

\* A line that is neither comment, blank, section marker nor '%' line.
IsContentLine(l) ==
    /\ ~IsSkipped(l)
    /\ Head(l) \notin {"BEGIN", "END", "%"}

\* A key:value line: a content line with a ':'.
IsKeyValueLine(l) == IsContentLine(l) /\ contains(l, ":")

\* A data row: a content line without ':'.
IsDataRowLine(l) == IsContentLine(l) /\ ~contains(l, ":")

\* A line that starts with END but not END SECTION, or with '%' but is more
\* than the bare marker: the parsers' reading of such lines is the subject of
\* properties of their own, and the other properties leave them out.
IsDisputedLine(l) ==
    /\ ~IsSkipped(l)
    /\ \/ Head(l) = "END" /\ ~startswith(l, <<"END", " ", "SECTION">>)
       \/ Head(l) = "%" /\ strip(l) # <<"%">>

\* The input read so far, with the line being read, has no such line.
PlainInput == \A i \in 1..Len(lines') : ~IsDisputedLine(lines'[i])

\* The input read so far has no such line.
PlainSoFar == \A i \in 1..Len(lines) : ~IsDisputedLine(lines[i])

\* No section name read so far has the word SECTION in it (how such a name
\* is read is the subject of a property of its own).
PlainNames ==
    \A i \in 1..Len(lines) :
        IsConfigBeginLine(lines[i]) => ~contains(SubSeq(lines[i], 4, Len(lines[i])), "SECTION")

\* The text after the marker BEGIN SECTION, trimmed.
NameAfterMarker(l) == strip(SubSeq(l, 4, Len(l)))

\* The key a key:value line sets.
KeyOf(l) == strip(SubSeq(l, 1, find(l, ":", 1) - 1))

\* The indices of the section-begin lines read so far.
ConfigBegins == {i \in 1..Len(lines) : IsConfigBeginLine(lines[i])}

\* The index of the last section-begin line read, 0 when there is none.
LastConfigBegin ==
    IF ConfigBegins = {} THEN 0
    ELSE CHOOSE i \in ConfigBegins : \A j \in ConfigBegins : j <= i

\* The indices of the lines read since the last section-begin line.
SinceBegin == (LastConfigBegin + 1)..Len(lines)

\* The number of rows the body of a section holds, over all its sequences.
RECURSIVE RowCount(_)
RowCount(body) ==
    IF DOMAIN body = {} THEN 0
    ELSE LET k == CHOOSE x \in DOMAIN body : TRUE
             rest == [x \in (DOMAIN body) \ {k} |-> body[x]]
         IN  Len(body[k].rows) + RowCount(rest)

----------------------------------------------------------------------------
(* C1 *)

\* The cursor names a sub-section that a data row of the current section opened.
OpenedHere ==
    \E j \in SinceBegin :
        /\ IsDataRowLine(lines[j])
        /\ split(lines[j])[1] = current_sub_section[1]

\* C1: in the main configuration parser, the first data row of a section seen
\* while no sub-section is set creates body[first token] = [row] and sets the
\* cursor to that token; every later data row of the same section is appended
\* to that same sequence.
C1_FirstRowOpensLaterRowsAppend ==
    [][ ( /\ dialect = "config"
          /\ ReadsLine
          /\ Truthy(current_section)
          /\ IsDataRowLine(line_read) )
        => LET row == split(line_read)
               sec == current_section[1]
           IN  IF current_sub_section = None
               THEN /\ status' = "running"
                    /\ current_sub_section' = Some(row[1])
                    /\ config_dict'[sec][row[1]] = ListValue(<<row>>)
               ELSE OpenedHere =>
                    LET sub == current_sub_section[1] IN
                    /\ status' = "running"
                    /\ current_sub_section' = current_sub_section
                    /\ sub \in DOMAIN config_dict[sec]
                    /\ config_dict'[sec][sub] =
                           ListValue(Append(config_dict[sec][sub].rows, row))
      ]_vars

\* The first half of C1 alone: the row that opens a sub-section.
C1_FirstRowOpens ==
    [][ ( /\ dialect = "config"
          /\ ReadsLine
          /\ Truthy(current_section)
          /\ IsDataRowLine(line_read)
          /\ current_sub_section = None )
        => LET row == split(line_read)
               sec == current_section[1]
           IN  /\ status' = "running"
               /\ current_sub_section' = Some(row[1])
               /\ config_dict'[sec][row[1]] = ListValue(<<row>>)
      ]_vars

----------------------------------------------------------------------------
(* C2 *)

\* C2: in the main configuration parser a section-begin line, in any state,
\* sets the current section to the new name, the body of that section to the
\* empty mapping, and clears the sub-section cursor.
C2_BeginClearsSubSection ==
    [][ ( /\ dialect = "config"
          /\ ReadsLine
          /\ PlainInput
          /\ IsConfigBeginLine(line_read)
          /\ NameAfterMarker(line_read) # <<>>
          /\ ~contains(NameAfterMarker(line_read), "SECTION") )
        => LET name == NameAfterMarker(line_read) IN
           /\ status' = "running"
           /\ current_section' = Some(name)
           /\ name \in DOMAIN config_dict'
           /\ config_dict'[name] = EmptyDict
           /\ current_sub_section' = None
      ]_vars

\* What the code does at a section-begin line: the cursor is left as it was.
C2_BeginKeepsSubSection ==
    [][ ( /\ dialect = "config"
          /\ ReadsLine
          /\ PlainInput
          /\ IsConfigBeginLine(line_read)
          /\ NameAfterMarker(line_read) # <<>>
          /\ ~contains(NameAfterMarker(line_read), "SECTION") )
        => LET name == NameAfterMarker(line_read) IN
           /\ status' = "running"
           /\ current_section' = Some(name)
           /\ name \in DOMAIN config_dict'
           /\ config_dict'[name] = EmptyDict
           /\ current_sub_section' = current_sub_section
      ]_vars

----------------------------------------------------------------------------
(* C3 *)

\* Every section read so far was opened under a non-empty name, and closed by
\* END SECTION before the next one was opened.
WellFormedSoFar ==
    /\ \A i \in ConfigBegins : NameAfterMarker(lines[i]) # <<>>
    /\ \A i, j \in ConfigBegins :
           i < j => \E k \in (i + 1)..(j - 1) : IsConfigEndLine(lines[k])

\* The data rows read since the last section-begin line.
RowsSinceBegin == {j \in SinceBegin : IsDataRowLine(lines[j])}

\* The key:value lines read since the last section-begin line.
KeyValuesSinceBegin == {j \in SinceBegin : IsKeyValueLine(lines[j])}

\* C3: on well-formed input to the main configuration parser every content
\* line of a section contributes exactly one entry, a key or a row, so the
\* section stores as many rows as it has data-row lines, and every key its
\* key:value lines set is a key of its body.
C3_OneEntryPerContentLine ==
    ( /\ dialect = "config"
      /\ PlainSoFar
      /\ PlainNames
      /\ WellFormedSoFar
      /\ LastConfigBegin > 0
      /\ \A j \in SinceBegin : ~IsConfigEndLine(lines[j]) )
    => LET name == NameAfterMarker(lines[LastConfigBegin]) IN
       /\ status # "raised"
       /\ name \in DOMAIN config_dict
       /\ RowCount(config_dict[name]) = Cardinality(RowsSinceBegin)
       /\ \A j \in KeyValuesSinceBegin : KeyOf(lines[j]) \in DOMAIN config_dict[name]

----------------------------------------------------------------------------
(* C8 *)

\* Some section read so far was left open when the next one began.
UnterminatedBeforeBegin ==
    \E i, j \in ConfigBegins :
        /\ i < j
        /\ \A k \in (i + 1)..(j - 1) : ~IsConfigEndLine(lines[k])

\* C8: the main configuration parser never fails because a section is left
\* unterminated, at end of input or before the next BEGIN.  Stated for inputs
\* without key:value lines, where nothing but the missing END is unusual.
C8_UnterminatedSectionNeverFails ==
    ( /\ dialect = "config"
      /\ PlainSoFar
      /\ \A i \in 1..Len(lines) : ~IsKeyValueLine(lines[i])
      /\ UnterminatedBeforeBegin )
    => status # "raised"

----------------------------------------------------------------------------
(* C9 *)

\* C9: in the main configuration parser a section that has key:value lines and
\* data rows, in any order and with any keys, does not fail the parse, and its
\* body keeps the key:value entries and the row sequence side by side.  Stated
\* for the first section of a file, which no earlier section can disturb.
C9_MixedSectionKeepsBoth ==
    ( /\ dialect = "config"
      /\ PlainSoFar
      /\ PlainNames
      /\ Cardinality(ConfigBegins) = 1
      /\ NameAfterMarker(lines[LastConfigBegin]) # <<>>
      /\ \A j \in SinceBegin : ~IsConfigEndLine(lines[j])
      /\ RowsSinceBegin # {}
      /\ KeyValuesSinceBegin # {} )
    => LET body == config_dict[NameAfterMarker(lines[LastConfigBegin])] IN
       /\ status # "raised"
       /\ \A j \in KeyValuesSinceBegin :
              /\ KeyOf(lines[j]) \in DOMAIN body
              /\ body[KeyOf(lines[j])].kind = "str"
       /\ \E k \in DOMAIN body :
              /\ body[k].kind = "list"
              /\ Len(body[k].rows) = Cardinality(RowsSinceBegin)

----------------------------------------------------------------------------
(* C10 *)

\* The step reads a data row of an open section that has fewer than n tokens.
ReadsShortRow(n) ==
    /\ ReadsLine
    /\ Truthy(current_section)
    /\ ~IsSkipped(line_read)
    /\ Head(line_read) \notin {"BEGIN", "END"}
    /\ Len(split(line_read)) < n

\* C10: a data row with fewer tokens than the decoder needs (7 in the
\* diagnostics parser, 6 in the species parser) ends the parse in a reported
\* schema violation, not in a truncated record nor in an index fault.
C10_ShortRowIsSchemaViolation ==
    [][ ( \/ dialect = "diagn" /\ ReadsShortRow(7)
          \/ dialect = "species" /\ ReadsShortRow(6) )
        => /\ status' = "raised"
           /\ error' = "SchemaViolation"
      ]_vars

\* What the code does with such a row: Python's IndexError, no record stored.
C10_ShortRowIsIndexError ==
    [][ ( \/ dialect = "diagn" /\ ReadsShortRow(7)
          \/ dialect = "species" /\ ReadsShortRow(6) )
        => /\ status' = "raised"
           /\ error' = "IndexError"
           /\ diagn_dict' = diagn_dict
           /\ species_dict' = species_dict
      ]_vars

----------------------------------------------------------------------------
(* C4 *)

\* The step reads a data row of an open section that has at least n tokens.
ReadsFullRow(n) ==
    /\ ReadsLine
    /\ Truthy(current_section)
    /\ ~IsSkipped(line_read)
    /\ Head(line_read) \notin {"BEGIN", "END"}
    /\ Len(split(line_read)) >= n

\* s is the strings of ts with exactly one space between neighbours.
SingleSpaced(s, ts) ==
    IF ts = <<>> THEN s = <<>> ELSE split_sep(s, " ") = ts

\* C4: in the diagnostics parser a data row of an open section with at least
\* 7 tokens is stored as the record whose Name, Spec, ExtNr, Cat, Hier, Dim and
\* OutUnit are tokens 1 to 7, and whose LongName is the remaining tokens joined
\* by single spaces, the empty string when there are exactly 7 tokens.
C4_DiagnRowDecodes ==
    [][ (dialect = "diagn" /\ ReadsFullRow(7))
        => LET t == split(line_read)
               sec == current_section[1]
               rec == diagn_dict'[sec][Len(diagn_dict'[sec])]
           IN  /\ status' = "running"
               /\ Len(diagn_dict'[sec]) = Len(diagn_dict[sec]) + 1
               /\ <<rec.Name, rec.Spec, rec.ExtNr, rec.Cat, rec.Hier, rec.Dim,
                    rec.OutUnit>> = SubSeq(t, 1, 7)
               /\ SingleSpaced(rec.LongName, SubSeq(t, 8, Len(t)))
               /\ (Len(t) = 7 => rec.LongName = <<>>)
      ]_vars

\* A section holds a record with an empty LongName and one with a LongName of
\* two words.
C4_Witness ==
    /\ dialect = "diagn"
    /\ \E n \in DOMAIN diagn_dict :
           /\ \E i \in 1..Len(diagn_dict[n]) : diagn_dict[n][i].LongName = <<>>
           /\ \E i \in 1..Len(diagn_dict[n]) :
                  diagn_dict[n][i].LongName = <<"L", "1", " ", "L", "2">>

----------------------------------------------------------------------------
(* C5 *)

\* C5: in the species parser a data row of an open section with at least 6
\* tokens sets, in the body of that section, the entry keyed by the second
\* token to the record {MW, K0, CR, pKA} of tokens 3, 4, 5 and 6; the first
\* token goes nowhere, and no other entry changes.
C5_SpeciesRowDecodes ==
    [][ (dialect = "species" /\ ReadsFullRow(6))
        => LET t == split(line_read)
               sec == current_section[1]
               body == species_dict[sec]
               body2 == species_dict'[sec]
           IN  /\ status' = "running"
               /\ DOMAIN body2 = (DOMAIN body) \cup {t[2]}
               /\ body2[t[2]] = [MW |-> t[3], K0 |-> t[4], CR |-> t[5], pKA |-> t[6]]
               /\ \A k \in (DOMAIN body) \ {t[2]} : body2[k] = body[k]
      ]_vars

\* A section of the returned tree holds the entry of the species NO.
C5_Witness ==
    /\ dialect = "species"
    /\ status = "returned"
    /\ \E n \in DOMAIN species_dict :
           /\ DOMAIN species_dict[n] = {<<"N", "O">>}
           /\ species_dict[n][<<"N", "O">>].MW = <<"m">>
           /\ species_dict[n][<<"N", "O">>].pKA = <<"p">>

----------------------------------------------------------------------------
(* C6 *)

\* A line between BEGIN SECTION and END SECTION that is no content: a comment,
\* a blank line or a '%' line.
IsNoContentLine(l) == IsSkipped(l) \/ Head(l) = "%"

\* The last line read is an END SECTION that closes a section holding no
\* content line; i is the index of its BEGIN SECTION.
ClosesEmptySection(i) ==
    /\ i < Len(lines)
    /\ IsConfigBeginLine(lines[i])
    /\ IsConfigEndLine(last_line)
    /\ \A k \in (i + 1)..(Len(lines) - 1) : IsNoContentLine(lines[k])

\* C6: in the main configuration parser, BEGIN SECTION Foo followed by END
\* SECTION with nothing but comments, blank lines and '%' lines in between
\* leaves Foo in the tree, mapped to the empty mapping.
C6_EmptySectionIsKept ==
    ( /\ dialect = "config"
      /\ Len(lines) >= 2
      /\ IsConfigEndLine(last_line) )
    => \A i \in 1..(Len(lines) - 1) :
           ClosesEmptySection(i) =>
               /\ status # "raised"
               /\ ConfigSectionName(lines[i]) \in DOMAIN config_dict
               /\ config_dict[ConfigSectionName(lines[i])] = EmptyDict

\* An empty section S was closed, with a line of no content inside it.
C6_Witness ==
    /\ dialect = "config"
    /\ Len(lines) >= 3
    /\ ClosesEmptySection(Len(lines) - 2)
    /\ ConfigSectionName(lines[Len(lines) - 2]) = <<"S">>
    /\ config_dict[<<"S">>] = EmptyDict

----------------------------------------------------------------------------
(* C7 *)

\* Line i is a section-begin line of the running parser that records name n.
BeginsSection(i, n) ==
    /\ ~IsSkipped(lines[i])
    /\ IF dialect = "config"
       THEN /\ startswith(lines[i], <<"BEGIN", " ", "SECTION">>)
            /\ ConfigSectionName(lines[i]) = n
       ELSE /\ startswith(lines[i], <<"BEGIN">>)
            /\ Len(split_sep(lines[i], " ")) >= 2
            /\ strip(split_sep(lines[i], " ")[2]) = n

\* The index of the last line read that begins section n.
LastBeginOf(n) ==
    CHOOSE i \in 1..Len(lines) :
        /\ BeginsSection(i, n)
        /\ \A j \in (i + 1)..Len(lines) : ~BeginsSection(j, n)

\* The lines read after index b that the running parser takes for content:
\* not skipped, no section marker and, in the main configuration file, not
\* starting with '%'.
ContentAfter(b) ==
    {j \in (b + 1)..Len(lines) :
        /\ ~IsSkipped(lines[j])
        /\ IF dialect = "config"
           THEN /\ Head(lines[j]) \notin {"BEGIN", "%"}
                /\ ~startswith(lines[j], <<"END", " ", "SECTION">>)
           ELSE Head(lines[j]) \notin {"BEGIN", "END"}}

\* Section n of the main configuration tree holds only what the lines after
\* index b put there.
ConfigBodyIsFrom(n, b) ==
    LET body == config_dict[n]
        kvs == {j \in ContentAfter(b) : contains(lines[j], ":")}
        rows == {j \in ContentAfter(b) : ~contains(lines[j], ":")}
    IN  /\ \A k \in DOMAIN body :
               IF body[k].kind = "str"
               THEN \E j \in kvs :
                        /\ KeyOf(lines[j]) = k
                        /\ strip(split_once(lines[j], ":")[2]) = body[k].str
               ELSE \A r \in 1..Len(body[k].rows) :
                        \E j \in rows : split(lines[j]) = body[k].rows[r]
        /\ RowCount(body) <= Cardinality(rows)

\* Section n of the diagnostics tree holds only what the lines after b put there.
DiagnBodyIsFrom(n, b) ==
    /\ \A r \in 1..Len(diagn_dict[n]) :
           \E j \in ContentAfter(b) :
               /\ Len(split(lines[j])) >= 7
               /\ SubSeq(split(lines[j]), 1, 7) =
                      LET rec == diagn_dict[n][r] IN
                      <<rec.Name, rec.Spec, rec.ExtNr, rec.Cat, rec.Hier, rec.Dim,
                        rec.OutUnit>>
    /\ Len(diagn_dict[n]) <= Cardinality(ContentAfter(b))

\* Section n of the species tree holds only what the lines after b put there.
SpeciesBodyIsFrom(n, b) ==
    \A k \in DOMAIN species_dict[n] :
        \E j \in ContentAfter(b) :
            /\ Len(split(lines[j])) >= 6
            /\ SubSeq(split(lines[j]), 2, 6) =
                   LET rec == species_dict[n][k] IN
                   <<k, rec.MW, rec.K0, rec.CR, rec.pKA>>

\* C7: section names are unique keys with last-write-wins, in the main
\* configuration, diagnostics and species parsers: the body of a section holds
\* only entries contributed after the last BEGIN of its name, and nothing that
\* was contributed under an earlier BEGIN of that name.  Stated of the tree
\* the parse returns, after an input of any length.
C7_LastBeginWins ==
    status = "returned" =>
    /\ dialect = "config" =>
           \A n \in DOMAIN config_dict : ConfigBodyIsFrom(n, LastBeginOf(n))
    /\ dialect = "diagn" =>
           \A n \in DOMAIN diagn_dict : DiagnBodyIsFrom(n, LastBeginOf(n))
    /\ dialect = "species" =>
           \A n \in DOMAIN species_dict : SpeciesBodyIsFrom(n, LastBeginOf(n))

\* Section S was begun twice, with a key:value line under each BEGIN, and the
\* returned tree holds only the key of the second.
C7_Witness ==
    /\ dialect = "config"
    /\ status = "returned"
    /\ Len(lines) = 4
    /\ BeginsSection(1, <<"S">>)
    /\ IsKeyValueLine(lines[2])
    /\ BeginsSection(3, <<"S">>)
    /\ IsKeyValueLine(lines[4])
    /\ KeyOf(lines[2]) # KeyOf(lines[4])
    /\ DOMAIN config_dict[<<"S">>] = {KeyOf(lines[4])}

----------------------------------------------------------------------------
(* C12 *)

\* The text of l before its first ':', trimmed.
TextBeforeColon(l) == strip(SubSeq(l, 1, find(l, ":", 1) - 1))

\* The text of l after its first ':', cut at the first '#', trimmed.
TextAfterColon(l) ==
    LET rest == SubSeq(l, find(l, ":", 1) + 1, Len(l))
    IN  strip(SubSeq(rest, 1, find(rest, "#", 1) - 1))

\* C12: the grid parser returns a flat mapping with no sections: a line that
\* is no comment, not blank and has a ':' sets the key before the first ':'
\* (trimmed) to the text after it, cut at the first '#' and trimmed, a later
\* line overwriting an earlier one of the same key; any other line leaves the
\* mapping as it was.
C12_GridIsFlatKeyValue ==
    [][ (dialect = "grid" /\ ReadsLine)
        => /\ status' = "running"
           /\ current_section' = None
           /\ IF ~IsSkipped(line_read) /\ contains(line_read, ":")
              THEN /\ DOMAIN grid_dict' =
                          (DOMAIN grid_dict) \cup {TextBeforeColon(line_read)}
                   /\ grid_dict'[TextBeforeColon(line_read)] =
                          TextAfterColon(line_read)
                   /\ \A k \in (DOMAIN grid_dict) \ {TextBeforeColon(line_read)} :
                          grid_dict'[k] = grid_dict[k]
              ELSE grid_dict' = grid_dict
      ]_vars

\* The returned mapping holds K with the value of the later of two lines, the
\* inline comment of that line cut off, and no entry for the line without ':'.
C12_Witness ==
    /\ dialect = "grid"
    /\ status = "returned"
    /\ Len(lines) = 3
    /\ TextAfterColon(lines[1]) = <<"v">>
    /\ contains(lines[2], "#")
    /\ ~contains(lines[3], ":")
    /\ DOMAIN grid_dict = {<<"K">>}
    /\ grid_dict[<<"K">>] = <<"w">>

----------------------------------------------------------------------------
(* C11 *)

\* The begin marker of the running parser.
BeginMarker ==
    IF dialect = "config" THEN <<"BEGIN", " ", "SECTION">> ELSE <<"BEGIN">>

\* The tree of the running parser.
Tree ==
    IF dialect = "config" THEN config_dict
    ELSE IF dialect = "diagn" THEN diagn_dict
    ELSE species_dict

\* The section names of the tree after the step.
SectionNamesAfter ==
    IF dialect = "config" THEN DOMAIN config_dict'
    ELSE IF dialect = "diagn" THEN DOMAIN diagn_dict'
    ELSE DOMAIN species_dict'

\* C11: in the main configuration, diagnostics and species parsers, a
\* section-begin line records as section name the whole text after the begin
\* marker, trimmed, also when the name has several words, has the word SECTION
\* in it or follows more than one space; and a begin line never fails the parse.
C11_NameIsTextAfterMarker ==
    [][ ( /\ ReadsLine
          /\ ~IsSkipped(line_read)
          /\ startswith(line_read, BeginMarker) )
        => LET name == strip(SubSeq(line_read, Len(BeginMarker) + 1, Len(line_read)))
           IN  /\ status' = "running"
               /\ current_section' = Some(name)
               /\ name \in SectionNamesAfter
      ]_vars

----------------------------------------------------------------------------
(* C13 *)

\* C13: in the main configuration, diagnostics and species parsers, a line
\* that starts with END, with or without SECTION after it, ends the section:
\* it clears the current section (and the sub-section cursor of the main
\* configuration parser), changes no section body, and is stored nowhere.
\* Stated of the states whose current section, if any, has a name.
C13_EndLineEndsSection ==
    [][ ( /\ ReadsLine
          /\ ~IsSkipped(line_read)
          /\ Head(line_read) = "END"
          /\ current_section # Some(<<>>) )
        => /\ status' = "running"
           /\ current_section' = None
           /\ (dialect = "config" => current_sub_section' = None)
           /\ config_dict' = config_dict
           /\ diagn_dict' = diagn_dict
           /\ species_dict' = species_dict
      ]_vars

\* What holds of the code: the same of every line that starts with END
\* SECTION, and of every line that starts with END in the diagnostics and
\* species parsers.
C13_EndSectionLineEndsSection ==
    [][ ( /\ ReadsLine
          /\ ~IsSkipped(line_read)
          /\ Head(line_read) = "END"
          /\ (dialect = "config" => startswith(line_read, <<"END", " ", "SECTION">>)) )
        => /\ status' = "running"
           /\ current_section' = None
           /\ (dialect = "config" => current_sub_section' = None)
           /\ config_dict' = config_dict
           /\ diagn_dict' = diagn_dict
           /\ species_dict' = species_dict
      ]_vars

----------------------------------------------------------------------------
(* C14 *)

\* C14: in the main configuration parser only the bare line '%' is skipped,
\* changing neither tree nor cursors; any other line of an open section that
\* starts with '%' is a key:value line when it has a ':' and a data row
\* otherwise, and puts its key or its row into the body of the section.
C14_OnlyBarePercentIsSkipped ==
    [][ ( /\ dialect = "config"
          /\ ReadsLine
          /\ Head(line_read) = "%" )
        => IF strip(line_read) = <<"%">>
           THEN /\ config_dict' = config_dict
                /\ current_section' = current_section
                /\ current_sub_section' = current_sub_section
                /\ status' = "running"
           ELSE Truthy(current_section) =>
                LET body == config_dict'[current_section[1]] IN
                IF contains(line_read, ":")
                THEN /\ KeyOf(line_read) \in DOMAIN body
                     /\ body[KeyOf(line_read)].kind = "str"
                ELSE \E k \in DOMAIN body :
                         /\ body[k].kind = "list"
                         /\ body[k].rows[Len(body[k].rows)] = split(line_read)
      ]_vars

\* What holds of the code: every line that starts with '%' is skipped.
C14_EveryPercentLineIsSkipped ==
    [][ ( /\ dialect = "config"
          /\ ReadsLine
          /\ Head(line_read) = "%" )
        => /\ config_dict' = config_dict
           /\ current_section' = current_section
           /\ current_sub_section' = current_sub_section
           /\ status' = "running"
      ]_vars

----------------------------------------------------------------------------
(* C15 *)

\* Line i is a section-end line of the running parser.
IsEndLineAt(i) ==
    /\ ~IsSkipped(lines[i])
    /\ ~startswith(lines[i], BeginMarker)
    /\ IF dialect = "config"
       THEN startswith(lines[i], <<"END", " ", "SECTION">>)
       ELSE Head(lines[i]) = "END"

\* Line i is a section-begin line of the running parser.
IsBeginLineAt(i) == ~IsSkipped(lines[i]) /\ startswith(lines[i], BeginMarker)

\* By the input read so far no section is open: no section has begun, or an
\* end line came after the last begin line.
ClosedByInput ==
    /\ dialect = "config" => PlainSoFar
    /\ \A i \in 1..Len(lines) :
           IsBeginLineAt(i) => \E j \in (i + 1)..Len(lines) : IsEndLineAt(j)

\* C15: in the main configuration, diagnostics and species parsers, a
\* key:value line or data row read while no section is active (before the
\* first BEGIN, or after an END and before the next BEGIN) is dropped: tree
\* and cursors stay as they are and the parse goes on, whatever the number of
\* tokens of the line.
C15_LineOutsideSectionIsDropped ==
    [][ ( /\ ReadsLine
          /\ IsContentLine(line_read)
          /\ (current_section = None \/ ClosedByInput) )
        => /\ status' = "running"
           /\ config_dict' = config_dict
           /\ diagn_dict' = diagn_dict
           /\ species_dict' = species_dict
           /\ current_section' = current_section
           /\ current_sub_section' = current_sub_section
      ]_vars

\* The diagnostics parser has read a section, its END and then a row of three
\* tokens, and goes on with the section as it was.
C15_Witness ==
    /\ dialect = "diagn"
    /\ status = "running"
    /\ Len(lines) = 4
    /\ IsBeginLineAt(1)
    /\ Len(split(lines[2])) = 7
    /\ IsEndLineAt(3)
    /\ IsContentLine(lines[4])
    /\ Len(split(lines[4])) = 3
    /\ current_section = None
    /\ \E n \in DOMAIN diagn_dict : Len(diagn_dict[n]) = 1

----------------------------------------------------------------------------
(* C16 *)

\* The index of the first section marker after line b, one past the last line
\* read when there is none.
SectionEnd(b) ==
    LET marks == {j \in (b + 1)..Len(lines) : IsBeginLineAt(j) \/ IsEndLineAt(j)}
    IN  IF marks = {} THEN Len(lines) + 1
        ELSE CHOOSE j \in marks : \A k \in marks : j <= k

\* The data rows between line b and the next section marker.
RowsOfSection(b) == {j \in ContentAfter(b) : j < SectionEnd(b)}

\* C16: in the diagnostics parser the value of a section is the sequence of
\* the records decoded from the data rows between the section's BEGIN and its
\* END (or the end of the input), one record per row and in input order; rows
\* of equal Name stay apart, and the sub-section cursor is never set.  Stated
\* of the sections with a name, while the parse has not failed.
C16_DiagnSectionIsRowSequence ==
    (dialect = "diagn" /\ status # "raised") =>
    /\ current_sub_section = None
    /\ \A n \in DOMAIN diagn_dict :
           n # <<>> =>
           LET rows == RowsOfSection(LastBeginOf(n))
               body == diagn_dict[n]
           IN  /\ Len(body) = Cardinality(rows)
               /\ \A j \in rows :
                      LET rec == body[Cardinality({k \in rows : k <= j})]
                          t == split(lines[j])
                      IN  /\ Len(t) >= 7
                          /\ <<rec.Name, rec.Spec, rec.ExtNr, rec.Cat, rec.Hier,
                               rec.Dim, rec.OutUnit>> = SubSeq(t, 1, 7)

\* A returned section holds two records of the same Name, in the order of
\* their rows.
C16_Witness ==
    /\ dialect = "diagn"
    /\ status = "returned"
    /\ Len(lines) = 4
    /\ IsBeginLineAt(1)
    /\ IsEndLineAt(4)
    /\ \E n \in DOMAIN diagn_dict :
           /\ n # <<>>
           /\ Len(diagn_dict[n]) = 2
           /\ diagn_dict[n][1].Name = diagn_dict[n][2].Name
           /\ diagn_dict[n][1].Spec = split(lines[2])[2]
           /\ diagn_dict[n][2].Spec = split(lines[3])[2]
           /\ diagn_dict[n][1].Spec # diagn_dict[n][2].Spec

----------------------------------------------------------------------------
(* C17 *)

\* C17: in the main configuration parser, after any lines read: when the
\* sub-section cursor is set, a section is current, the cursor is a key of
\* that section's body and the value at the key is a list of rows; so no data
\* row fails with a missing key or a value that is no list.  Stated of
\* inputs whose sections all have a name.
C17_CursorNamesRowList ==
    ( /\ dialect = "config"
      /\ PlainSoFar
      /\ PlainNames
      /\ \A i \in ConfigBegins : NameAfterMarker(lines[i]) # <<>> ) =>
    /\ ~(status = "raised" /\ error \in {"KeyError", "AttributeError"})
    /\ (status = "running" /\ current_sub_section # None) =>
           /\ current_section # None
           /\ current_section[1] \in DOMAIN config_dict
           /\ current_sub_section[1] \in DOMAIN config_dict[current_section[1]]
           /\ config_dict[current_section[1]][current_sub_section[1]].kind = "list"

----------------------------------------------------------------------------
(* C18 *)

\* A line the main configuration parser takes for a key:value line or a data
\* row: not skipped, no BEGIN SECTION, no END SECTION, no '%' line.
IsConfigContent(l) ==
    /\ ~IsSkipped(l)
    /\ ~startswith(l, <<"BEGIN", " ", "SECTION">>)
    /\ ~startswith(l, <<"END", " ", "SECTION">>)
    /\ Head(l) # "%"

\* The keys of a section body whose value is a list of rows.
ListKeys(body) == {k \in DOMAIN body : body[k].kind = "list"}

\* Every section body of tree has at most one list of rows, and the first
\* token of the first row of the list is its key.
OneListPerBody(tree) ==
    \A n \in DOMAIN tree :
        /\ Cardinality(ListKeys(tree[n])) <= 1
        /\ \A k \in ListKeys(tree[n]) :
               /\ tree[n][k].rows # <<>>
               /\ tree[n][k].rows[1][1] = k

\* C18: in the main configuration parser a key:value line or data row read
\* while the sub-section cursor is set leaves the cursor as it is; and so,
\* after every step, each section body of the tree holds at most one list of
\* rows, whose first row has the list's key for first token.
C18_CursorFixedOneListPerSection ==
    [][ /\ ( /\ dialect = "config"
             /\ ReadsLine
             /\ IsConfigContent(line_read)
             /\ current_sub_section # None )
           => current_sub_section' = current_sub_section
        /\ dialect = "config" => OneListPerBody(config_dict')
      ]_vars

\* The cursor stayed on A while a row with first token B and a key:value line
\* were read: the section holds the one list A, of two rows, and the key.
C18_Witness ==
    /\ dialect = "config"
    /\ status = "running"
    /\ current_section = Some(<<"S">>)
    /\ current_sub_section = Some(<<"A">>)
    /\ <<"S">> \in DOMAIN config_dict
    /\ LET body == config_dict[<<"S">>] IN
       /\ ListKeys(body) = {<<"A">>}
       /\ Len(body[<<"A">>].rows) = 2
       /\ body[<<"A">>].rows[2][1] = <<"B">>
       /\ <<"K">> \in DOMAIN body

----------------------------------------------------------------------------
(* C19 *)

\* A line the running parser takes for a key:value line or a data row.
IsContentOfDialect(l) ==
    IF dialect = "config" THEN IsConfigContent(l)
    ELSE ~IsSkipped(l) /\ Head(l) \notin {"BEGIN", "END"}

\* C19: in the main configuration, diagnostics and species parsers, a
\* key:value line or data row read while section S is current changes at most
\* the body of S: the section names of the tree and the bodies of the other
\* sections stay as they are.  And no step of the parse, the return included,
\* takes a section name out of the tree.
C19_ContentChangesOnlyCurrentBody ==
    [][ /\ ( /\ ReadsLine
             /\ IsContentOfDialect(line_read)
             /\ Truthy(current_section) )
           => /\ DOMAIN Tree' = DOMAIN Tree
              /\ \A n \in DOMAIN Tree : n # current_section[1] => Tree'[n] = Tree[n]
        /\ DOMAIN Tree \subseteq DOMAIN Tree'
      ]_vars

\* The species parser holds two sections, each with the entry of the row
\* read while it was current: the rows have the same key and different MW.
C19_Witness ==
    /\ dialect = "species"
    /\ status = "running"
    /\ Len(lines) = 4
    /\ IsBeginLineAt(1)
    /\ IsBeginLineAt(3)
    /\ Cardinality(DOMAIN species_dict) = 2
    /\ Truthy(current_section)
    /\ \A n \in DOMAIN species_dict : Cardinality(DOMAIN species_dict[n]) = 1
    /\ \E n \in DOMAIN species_dict :
           LET k == SpeciesKey(split(lines[2])) IN
           /\ n # current_section[1]
           /\ k = SpeciesKey(split(lines[4]))
           /\ species_dict[n][k].MW = split(lines[2])[3]
           /\ species_dict[current_section[1]][k].MW = split(lines[4])[3]
           /\ split(lines[2])[3] # split(lines[4])[3]

====
